---- MODULE Spec2Model ----
(***************************************************************************)
(* Model of Software/copilot.py: the product-record query engine           *)
(* (UserRequirement.validate, build_predicates, apply_query), the metrics  *)
(* aggregator (compute_metrics) and the dataset accessor (get_products).   *)
(*                                                                         *)
(* Python values are represented as follows.                               *)
(*   Optional[T]   <<>> is None, <<v>> is the value v                      *)
(*   str (names)   a sequence of one-character strings, so that lower(),   *)
(*                 strip(), `in` and string comparison are computed        *)
(*   str (keys)    sort_by and the field names are TLA+ strings            *)
(*   list objects  live in `heap`, indexed by reference, so that aliasing  *)
(*                 and in-place mutation are visible                       *)
(***************************************************************************)
EXTENDS Integers, Sequences, FiniteSets, TLC

VARIABLES
    heap,       \* reference -> contents of the list object
    held,       \* references of the lists the caller got from get_products
    products,   \* apply_query: reference of the list passed as `products`
    req,        \* apply_query: the UserRequirement passed as `req`
    pc,         \* position inside apply_query, or "idle" outside of it
    predicates, \* apply_query: local `predicates`
    filtered,   \* apply_query: local `filtered` (a fresh list object)
    result,     \* Optional: the list returned by the last apply_query
    error,      \* the ValueError raised by the last apply_query, or NoError
    audit,      \* the records handed to logger.info, oldest first
    metrics,    \* Optional: the dict returned by the last compute_metrics
    ops         \* number of caller operations performed so far

vars == <<heap, held, products, req, pc, predicates, filtered, result, error,
          audit, metrics, ops>>

-----------------------------------------------------------------------------
(* Bounds of the model                                                     *)

MaxLen == 3        \* longest input list of the sort, limit and metrics inputs
MaxFilterLen == 2  \* longest input list of the filter inputs
MaxBound == 1      \* largest bound value of an input requirement (smallest is -1)
MaxLimit == 3      \* largest |limit| of an input requirement
MaxOps == 5        \* most caller operations in the program scenario
MaxHeld == 2       \* most lists the caller holds in the program scenario

-----------------------------------------------------------------------------
(* Optional values and small helpers                                       *)

None == <<>>
Some(v) == <<v>>
Get(o) == o[1]

Min(a, b) == IF a <= b THEN a ELSE b
Max(a, b) == IF a >= b THEN a ELSE b

Reverse(s) == [i \in 1..Len(s) |-> s[Len(s) + 1 - i]]

RECURSIVE SumOver(_, _)
SumOver(s, f) == IF s = <<>> THEN 0 ELSE s[1][f] + SumOver(Tail(s), f)

-----------------------------------------------------------------------------
(* Python str: lower(), strip(), `in`, and ordering by code point          *)

LowerLetters == <<"a","b","c","d","e","f","g","h","i","j","k","l","m",
                  "n","o","p","q","r","s","t","u","v","w","x","y","z">>
UpperLetters == <<"A","B","C","D","E","F","G","H","I","J","K","L","M",
                  "N","O","P","Q","R","S","T","U","V","W","X","Y","Z">>

IndexIn(c, letters) == CHOOSE i \in 1..Len(letters) : letters[i] = c
IsIn(c, letters) == \E i \in 1..Len(letters) : letters[i] = c

\* ord(c) for the characters that occur in the model
CharCode(c) ==
    IF IsIn(c, LowerLetters) THEN 96 + IndexIn(c, LowerLetters)
    ELSE IF IsIn(c, UpperLetters) THEN 64 + IndexIn(c, UpperLetters)
    ELSE IF c = " " THEN 32
    ELSE IF c = "(" THEN 40
    ELSE 41

LowerChar(c) == IF IsIn(c, UpperLetters) THEN LowerLetters[IndexIn(c, UpperLetters)] ELSE c

\* str.lower()
StrLower(s) == [i \in 1..Len(s) |-> LowerChar(s[i])]

\* str.strip(): drop leading and trailing whitespace
RECURSIVE LStrip(_)
LStrip(s) == IF s # <<>> /\ s[1] = " " THEN LStrip(Tail(s)) ELSE s
StrStrip(s) == Reverse(LStrip(Reverse(LStrip(s))))

\* `needle in hay` for two str
StrIn(needle, hay) ==
    \E i \in 0..(Len(hay) - Len(needle)) :
        \A j \in 1..Len(needle) : hay[i + j] = needle[j]

\* s < t for two str (lexicographic by code point; a proper prefix is smaller)
RECURSIVE StrLess(_, _)
StrLess(s, t) ==
    IF t = <<>> THEN FALSE
    ELSE IF s = <<>> THEN TRUE
    ELSE IF CharCode(s[1]) # CharCode(t[1]) THEN CharCode(s[1]) < CharCode(t[1])
    ELSE StrLess(Tail(s), Tail(t))

-----------------------------------------------------------------------------
(* Data models                                                             *)

ProductRecord(p, i, u, r) == [product |-> p, inventory |-> i, units_sold |-> u, revenue |-> r]

\* The module-level list PRODUCTS is the list object with this reference
PRODUCTS == 0

\* The literal the module binds PRODUCTS to
Dataset ==
    << ProductRecord(<<"C","e","m","e","n","t"," ","(","U","l","t","r","a","T","e","c","h",")">>,
                     320, 180, 90000),
       ProductRecord(<<"T","M","T"," ","S","t","e","e","l">>, 210, 140, 140000),
       ProductRecord(<<"R","i","v","e","r"," ","S","a","n","d">>, 710, 460, 250000) >>

BoundNames == {"min_inventory", "max_inventory", "min_units_sold", "max_units_sold",
               "min_revenue", "max_revenue"}

\* UserRequirement with its dataclass defaults
DefaultRequirement ==
    [min_inventory |-> None, max_inventory |-> None,
     min_units_sold |-> None, max_units_sold |-> None,
     min_revenue |-> None, max_revenue |-> None,
     product_contains |-> None, sort_by |-> None, sort_desc |-> TRUE, limit |-> None]

\* Python truthiness of an Optional[str]: None and the empty string are falsy
TruthyKey(o) == o # None /\ Get(o) # ""
TruthyStr(o) == o # None /\ Get(o) # <<>>

-----------------------------------------------------------------------------
(* Validation utilities                                                    *)

NoError == [kind |-> "none", field |-> ""]

\* Variant: zero is rejected as well
validate_non_negative_or_zero(name, value) ==
    IF value # None /\ Get(value) <= 0
    THEN [kind |-> "NegativeBound", field |-> name]
    ELSE [kind |-> "none", field |-> ""]

validate_non_negative(name, value) ==
    IF value # None /\ Get(value) < 0
    THEN [kind |-> "NegativeBound", field |-> name]
    ELSE NoError

validate_range(name_min, name_max, min_val, max_val) ==
    IF min_val # None /\ max_val # None /\ Get(min_val) > Get(max_val)
    THEN [kind |-> "InvertedRange", field |-> name_min]
    ELSE NoError

SortKeys == {"inventory", "units_sold", "revenue", "product"}

validate_sort_by(sort_by) ==
    IF TruthyKey(sort_by) /\ Get(sort_by) \notin SortKeys
    THEN [kind |-> "UnsupportedSortKey", field |-> "sort_by"]
    ELSE NoError

\* Variant: the range checks run before the non-negativity checks
ValidateChecksRangesFirst(r) ==
    << validate_range("min_inventory", "max_inventory", r.min_inventory, r.max_inventory),
       validate_range("min_units_sold", "max_units_sold", r.min_units_sold, r.max_units_sold),
       validate_range("min_revenue", "max_revenue", r.min_revenue, r.max_revenue),
       validate_non_negative("min_inventory", r.min_inventory),
       validate_non_negative("max_inventory", r.max_inventory),
       validate_non_negative("min_units_sold", r.min_units_sold),
       validate_non_negative("max_units_sold", r.max_units_sold),
       validate_non_negative("min_revenue", r.min_revenue),
       validate_non_negative("max_revenue", r.max_revenue),
       validate_sort_by(r.sort_by) >>

\* The statements of validate in program order; each either raises or falls through
ValidateChecks(r) ==
    << validate_non_negative("min_inventory", r.min_inventory),
       validate_non_negative("max_inventory", r.max_inventory),
       validate_non_negative("min_units_sold", r.min_units_sold),
       validate_non_negative("max_units_sold", r.max_units_sold),
       validate_non_negative("min_revenue", r.min_revenue),
       validate_non_negative("max_revenue", r.max_revenue),
       validate_range("min_inventory", "max_inventory", r.min_inventory, r.max_inventory),
       validate_range("min_units_sold", "max_units_sold", r.min_units_sold, r.max_units_sold),
       validate_range("min_revenue", "max_revenue", r.min_revenue, r.max_revenue),
       validate_sort_by(r.sort_by) >>

\* The first statement that raises ends the call
FirstRaised(checks) ==
    IF \E i \in 1..Len(checks) : checks[i] # NoError
    THEN checks[CHOOSE i \in 1..Len(checks) :
                    /\ checks[i] # NoError
                    /\ \A j \in 1..(i - 1) : checks[j] = NoError]
    ELSE NoError

validate(r) == FirstRaised(ValidateChecks(r))

-----------------------------------------------------------------------------
(* Query engine                                                            *)

\* One entry of `preds`: a test of one record field against a captured value
Predicate(f, o, a) == [field |-> f, op |-> o, arg |-> a]

WhenPresent(o, pred) == IF o # None THEN <<pred>> ELSE <<>>

build_predicates(r) ==
    WhenPresent(r.min_inventory, Predicate("inventory", ">=", r.min_inventory))
    \o WhenPresent(r.max_inventory, Predicate("inventory", "<=", r.max_inventory))
    \o WhenPresent(r.min_units_sold, Predicate("units_sold", ">=", r.min_units_sold))
    \o WhenPresent(r.max_units_sold, Predicate("units_sold", "<=", r.max_units_sold))
    \o WhenPresent(r.min_revenue, Predicate("revenue", ">=", r.min_revenue))
    \o WhenPresent(r.max_revenue, Predicate("revenue", "<=", r.max_revenue))
    \o (IF TruthyStr(r.product_contains)
        THEN <<Predicate("product", "in",
                         Some(StrStrip(StrLower(Get(r.product_contains)))))>>
        ELSE <<>>)

\* Variant: the bounds are exclusive
HoldsExclusive(pred, p) ==
    CASE pred.op = ">=" -> p[pred.field] > Get(pred.arg)
      [] pred.op = "<=" -> p[pred.field] < Get(pred.arg)
      [] pred.op = "in" -> StrIn(Get(pred.arg), StrLower(p.product))

\* pred(p) for one entry of `preds`
Holds(pred, p) ==
    CASE pred.op = ">=" -> p[pred.field] >= Get(pred.arg)
      [] pred.op = "<=" -> p[pred.field] <= Get(pred.arg)
      [] pred.op = "in" -> StrIn(Get(pred.arg), StrLower(p.product))

\* The filter loop: keep p when all(pred(p) for pred in predicates)
FilterRecords(ps, preds) ==
    LET Keep(p) == \A i \in 1..Len(preds) : Holds(preds[i], p)
    IN SelectSeq(ps, Keep)

\* key_func of the chosen sort key
key_func(sort_by, r) == IF sort_by = "product" THEN StrLower(r.product) ELSE r[sort_by]

\* k1 < k2 for two keys of the same sort key (int or str)
KeyLess(sort_by, k1, k2) == IF sort_by = "product" THEN StrLess(k1, k2) ELSE k1 < k2

\* Stable insertion: x goes after every element whose key is not greater
InsertByKey(sorted, x, sort_by) ==
    LET later == {i \in 1..Len(sorted) :
                     KeyLess(sort_by, key_func(sort_by, x), key_func(sort_by, sorted[i]))}
        pos == IF later = {} THEN Len(sorted) + 1
               ELSE CHOOSE i \in later : \A j \in later : i <= j
    IN SubSeq(sorted, 1, pos - 1) \o <<x>> \o SubSeq(sorted, pos, Len(sorted))

RECURSIVE StableSort(_, _)
StableSort(s, sort_by) ==
    IF s = <<>> THEN <<>>
    ELSE InsertByKey(StableSort(SubSeq(s, 1, Len(s) - 1), sort_by), s[Len(s)], sort_by)

\* Variant: a descending sort obtained by reversing the ascending result only
ListSortReversedAfter(s, sort_by, reverse) ==
    IF reverse THEN Reverse(StableSort(s, sort_by)) ELSE StableSort(s, sort_by)

\* list.sort(key=..., reverse=...): a stable ascending sort; with reverse the
\* list is reversed before and after it, which keeps equal keys in input order
ListSort(s, sort_by, reverse) ==
    IF reverse THEN Reverse(StableSort(Reverse(s), sort_by)) ELSE StableSort(s, sort_by)

\* Variant: a negative stop is clamped to 0
SlicePrefixClamped(s, stop) == SubSeq(s, 1, Min(Max(stop, 0), Len(s)))

\* s[:stop] for an int stop (a negative stop counts from the end)
SlicePrefix(s, stop) ==
    LET hi == IF stop < 0 THEN Max(Len(s) + stop, 0) ELSE Min(stop, Len(s))
    IN SubSeq(s, 1, hi)

AuditEvent(e, p) == [event |-> e, payload |-> p]

\* Variant: the request is logged before it is validated
ValidateAfterAudit ==
    /\ pc = "validate"
    /\ audit' = Append(audit, AuditEvent("query_requested", req))
    /\ LET e == validate(req) IN
         IF e # NoError
         THEN /\ error' = e
              /\ pc' = "idle"
              /\ UNCHANGED predicates
         ELSE /\ predicates' = build_predicates(req)
              /\ pc' = "filter"
              /\ UNCHANGED error
    /\ UNCHANGED <<heap, held, products, req, filtered, result, metrics, ops>>

\* req.validate(); predicates = build_predicates(req)
Validate ==
    /\ pc = "validate"
    /\ LET e == validate(req) IN
         IF e # NoError
         THEN /\ error' = e
              /\ pc' = "idle"
              /\ UNCHANGED predicates
         ELSE /\ predicates' = build_predicates(req)
              /\ pc' = "audit_request"
              /\ UNCHANGED error
    /\ UNCHANGED <<heap, held, products, req, filtered, result, audit, metrics, ops>>

\* logger.info("Query requested: ...")
AuditRequest ==
    /\ pc = "audit_request"
    /\ audit' = Append(audit, AuditEvent("query_requested", req))
    /\ pc' = "filter"
    /\ UNCHANGED <<heap, held, products, req, predicates, filtered, result, error,
                   metrics, ops>>

\* filtered = [] and the filter loop
Filter ==
    /\ pc = "filter"
    /\ filtered' = FilterRecords(heap[products], predicates)
    /\ pc' = "sort"
    /\ UNCHANGED <<heap, held, products, req, predicates, result, error, audit,
                   metrics, ops>>

\* Variant: `filtered` is the caller's list when nothing was filtered out, so
\* the in-place sort reorders the input
SortAliasedInput ==
    /\ pc = "sort"
    /\ filtered' = IF TruthyKey(req.sort_by)
                   THEN ListSort(filtered, Get(req.sort_by), req.sort_desc)
                   ELSE filtered
    /\ heap' = IF filtered = heap[products]
               THEN [heap EXCEPT ![products] = filtered']
               ELSE heap
    /\ pc' = "limit"
    /\ UNCHANGED <<held, products, req, predicates, result, error, audit, metrics, ops>>

\* Variant: the limit is taken before the sort
SortAfterLimit ==
    /\ pc = "sort"
    /\ LET cut == IF req.limit # None THEN SlicePrefix(filtered, Get(req.limit))
                  ELSE filtered
       IN filtered' = IF TruthyKey(req.sort_by)
                      THEN ListSort(cut, Get(req.sort_by), req.sort_desc)
                      ELSE cut
    /\ pc' = "limit"
    /\ UNCHANGED <<heap, held, products, req, predicates, result, error, audit,
                   metrics, ops>>

\* if req.sort_by: filtered.sort(key=key_func, reverse=req.sort_desc)
Sort ==
    /\ pc = "sort"
    /\ filtered' = IF TruthyKey(req.sort_by)
                   THEN ListSort(filtered, Get(req.sort_by), req.sort_desc)
                   ELSE filtered
    /\ pc' = "limit"
    /\ UNCHANGED <<heap, held, products, req, predicates, result, error, audit,
                   metrics, ops>>

\* if req.limit is not None: filtered = filtered[:req.limit]
Limit ==
    /\ pc = "limit"
    /\ filtered' = IF req.limit # None
                   THEN SlicePrefix(filtered, Get(req.limit))
                   ELSE filtered
    /\ pc' = "audit_result"
    /\ UNCHANGED <<heap, held, products, req, predicates, result, error, audit,
                   metrics, ops>>

\* logger.info("Query result count: ..."); return filtered
AuditResult ==
    /\ pc = "audit_result"
    /\ audit' = Append(audit, AuditEvent("query_result_count", Len(filtered)))
    /\ result' = Some(filtered)
    /\ pc' = "idle"
    /\ UNCHANGED <<heap, held, products, req, predicates, filtered, error,
                   metrics, ops>>

\* One run of apply_query(products, req), statement by statement
QueryNext == Validate \/ AuditRequest \/ Filter \/ Sort \/ Limit \/ AuditResult

-----------------------------------------------------------------------------
(* Aggregations and metrics                                                *)

\* max(products, key=lambda p: p.revenue): one pass that keeps the current
\* best and replaces it only by a strictly greater key
RECURSIVE MaxByRevenueFrom(_, _)
MaxByRevenueFrom(best, rest) ==
    IF rest = <<>> THEN best
    ELSE MaxByRevenueFrom(IF rest[1].revenue > best.revenue THEN rest[1] ELSE best,
                          Tail(rest))

\* Variant: an equal key replaces the current best, so the last maximum wins
MaxByRevenueLast(s) ==
    LET top == CHOOSE i \in 1..Len(s) :
                  /\ \A j \in 1..Len(s) : s[j].revenue <= s[i].revenue
                  /\ \A j \in (i + 1)..Len(s) : s[j].revenue < s[i].revenue
    IN s[top]

MaxByRevenue(s) == MaxByRevenueFrom(s[1], Tail(s))

compute_metrics(ps) ==
    [total_revenue_products |-> SumOver(ps, "revenue"),
     total_units_sold_products |-> SumOver(ps, "units_sold"),
     total_inventory_products |-> SumOver(ps, "inventory"),
     top_product_by_revenue |-> IF ps # <<>> THEN Some(MaxByRevenue(ps)) ELSE None]

-----------------------------------------------------------------------------
(* Dataset accessor and its caller                                         *)

NewRef == 1 + CHOOSE r \in DOMAIN heap : \A q \in DOMAIN heap : q <= r

\* Variant: the list object itself is returned
list_alias(ref) == [ref |-> ref, heap |-> heap]

\* list.copy(): a new list object with the same elements
list_copy(ref) == [ref |-> NewRef, heap |-> heap @@ (NewRef :> heap[ref])]

\* get_products(): log the count, return PRODUCTS.copy()
GetProducts ==
    /\ pc = "idle" /\ ops < MaxOps /\ Len(held) < MaxHeld
    /\ LET ret == list_copy(PRODUCTS) IN
         /\ heap' = ret.heap
         /\ held' = Append(held, ret.ref)
    /\ audit' = Append(audit, AuditEvent("products_accessed", Len(heap[PRODUCTS])))
    /\ ops' = ops + 1
    /\ UNCHANGED <<products, req, pc, predicates, filtered, result, error, metrics>>

\* The record a caller adds to or puts into a list it holds
CallerRecord == ProductRecord(<<"G","r","a","v","e","l">>, 50, 10, 250000)

\* The caller's own operations on the list object held[i]
CallerMutations(l) ==
    {Append(l, CallerRecord)}                                     \* l.append(r)
    \cup (IF l = <<>> THEN {} ELSE {Tail(l)})                     \* del l[0]
    \cup {Reverse(l)}                                             \* l.reverse()
    \cup {[l EXCEPT ![k] = CallerRecord] : k \in 1..Len(l)}       \* l[k] = r

CallerMutates ==
    /\ pc = "idle" /\ ops < MaxOps
    /\ \E i \in 1..Len(held) : \E l \in CallerMutations(heap[held[i]]) :
         /\ heap' = [heap EXCEPT ![held[i]] = l]
    /\ ops' = ops + 1
    /\ UNCHANGED <<held, products, req, pc, predicates, filtered, result, error,
                   audit, metrics>>

\* The requirements the caller queries with in the program scenario:
\* run_example's requirement, a text filter with a limit, and an invalid one
CallerRequirements ==
    { [DefaultRequirement EXCEPT !.min_revenue = Some(100000), !.min_inventory = Some(200),
                                 !.sort_by = Some("revenue"), !.sort_desc = TRUE],
      [DefaultRequirement EXCEPT !.product_contains = Some(<<"S">>),
                                 !.sort_by = Some("product"), !.sort_desc = FALSE,
                                 !.limit = Some(1)],
      [DefaultRequirement EXCEPT !.min_units_sold = Some(-1)] }

\* The caller calls apply_query(held[i], r)
CallApplyQuery ==
    /\ pc = "idle" /\ ops < MaxOps
    /\ \E i \in 1..Len(held) : \E r \in CallerRequirements :
         /\ products' = held[i]
         /\ req' = r
    /\ pc' = "validate"
    /\ predicates' = <<>> /\ filtered' = <<>>
    /\ result' = None /\ error' = NoError
    /\ ops' = ops + 1
    /\ UNCHANGED <<heap, held, audit, metrics>>

\* The caller calls compute_metrics(held[i])
ComputeMetrics ==
    /\ pc = "idle" /\ ops < MaxOps
    /\ \E i \in 1..Len(held) :
         LET m == compute_metrics(heap[held[i]]) IN
           /\ metrics' = Some(m)
           /\ audit' = Append(audit, AuditEvent("metrics_computed", m))
    /\ ops' = ops + 1
    /\ UNCHANGED <<heap, held, products, req, pc, predicates, filtered, result, error>>

-----------------------------------------------------------------------------
(* The program: the module is loaded, then a caller uses the accessor,     *)
(* changes the lists it got, queries them and aggregates them              *)

Init ==
    /\ heap = (PRODUCTS :> Dataset)
    /\ held = <<>>
    /\ products = PRODUCTS
    /\ req = DefaultRequirement
    /\ pc = "idle"
    /\ predicates = <<>> /\ filtered = <<>>
    /\ result = None /\ error = NoError
    /\ audit = <<>>
    /\ metrics = None
    /\ ops = 0

Next == GetProducts \/ CallerMutates \/ CallApplyQuery \/ ComputeMetrics \/ QueryNext

Spec == Init /\ [][Next]_vars

-----------------------------------------------------------------------------
(* Input sets for the runs of a single call                                *)

\* Records with ties on every numeric field and names that differ only in case
Catalogue ==
    { ProductRecord(<<"A","b">>, 1, 0, 1),
      ProductRecord(<<"a","B">>, 0, 1, 1),
      ProductRecord(<<"b">>,     1, 1, 0),
      ProductRecord(<<"B","a">>, 2, 0, 2) }

ListsUpTo(n) == UNION {[1..k -> Catalogue] : k \in 0..n}

OptInts(lo, hi) == {None} \cup {Some(v) : v \in lo..hi}

Requirement(b, contains, sort_by, sort_desc, limit) ==
    [min_inventory |-> b["min_inventory"], max_inventory |-> b["max_inventory"],
     min_units_sold |-> b["min_units_sold"], max_units_sold |-> b["max_units_sold"],
     min_revenue |-> b["min_revenue"], max_revenue |-> b["max_revenue"],
     product_contains |-> contains, sort_by |-> sort_by, sort_desc |-> sort_desc,
     limit |-> limit]

NoBounds == [n \in BoundNames |-> None]

\* Every assignment of the six bounds
AllBounds == [BoundNames -> OptInts(-1, MaxBound)]

\* Non-negative bounds on at most two of the six fields at once
PairBounds ==
    {b \in [BoundNames -> OptInts(0, MaxBound)] :
        \E n1 \in BoundNames, n2 \in BoundNames :
            \A n \in BoundNames \ {n1, n2} : b[n] = None}

SortByInputs == {None, Some(""), Some("inventory"), Some("units_sold"), Some("revenue"),
                 Some("product"), Some("price")}

ContainsInputs == {None, Some(<<>>), Some(<<" ">>), Some(<<"A">>), Some(<<"a","B"," ">>),
                   Some(<<" ","B","a">>), Some(<<"c">>)}

\* Requirements with several violations at once and with out-of-range values
ExampleRequirements ==
    { [DefaultRequirement EXCEPT !.min_revenue = Some(500), !.max_revenue = Some(100)],
      [DefaultRequirement EXCEPT !.min_inventory = Some(-1)],
      [DefaultRequirement EXCEPT !.sort_by = Some("price")],
      [DefaultRequirement EXCEPT !.min_inventory = Some(5), !.max_inventory = Some(-1)],
      [DefaultRequirement EXCEPT !.min_revenue = Some(500), !.max_revenue = Some(100),
                                 !.sort_by = Some("price")] }

ValidateInputs ==
    {Requirement(b, None, s, TRUE, None) : b \in AllBounds, s \in SortByInputs}
    \cup ExampleRequirements

FilterInputs ==
    {Requirement(b, c, None, TRUE, None) :
        b \in PairBounds, c \in {None, Some(<<"a","B"," ">>)}}
    \cup {Requirement(NoBounds, c, None, TRUE, None) : c \in ContainsInputs}

SortInputs ==
    {Requirement([NoBounds EXCEPT !["min_revenue"] = m], None, s, d, None) :
        m \in OptInts(-1, MaxBound), s \in SortByInputs, d \in BOOLEAN}

LimitInputs ==
    {Requirement([NoBounds EXCEPT !["min_inventory"] = m], None, s, TRUE, l) :
        m \in {None, Some(1)}, s \in {None, Some("revenue")},
        l \in OptInts(-MaxLimit, MaxLimit)}

\* The state on entry to apply_query(l, r)
CallOf(l, r) ==
    /\ heap = (PRODUCTS :> Dataset) @@ (1 :> l)
    /\ held = <<1>>
    /\ products = 1
    /\ req = r
    /\ pc = "validate"
    /\ predicates = <<>> /\ filtered = <<>>
    /\ result = None /\ error = NoError
    /\ audit = <<>>
    /\ metrics = None
    /\ ops = 0

InitValidate == \E r \in ValidateInputs : CallOf(SubSeq(Dataset, 1, 2), r)
InitFilter == \E l \in ListsUpTo(MaxFilterLen), r \in FilterInputs : CallOf(l, r)
InitSort == \E l \in ListsUpTo(MaxLen), r \in SortInputs : CallOf(l, r)
InitLimit == \E l \in ListsUpTo(MaxLen), r \in LimitInputs : CallOf(l, r)

SpecValidate == InitValidate /\ [][QueryNext]_vars
SpecFilter == InitFilter /\ [][QueryNext]_vars
SpecSort == InitSort /\ [][QueryNext]_vars
SpecLimit == InitLimit /\ [][QueryNext]_vars

\* The state before one call compute_metrics(l)
InitMetrics ==
    \E l \in ListsUpTo(MaxLen) :
        /\ heap = (PRODUCTS :> Dataset) @@ (1 :> l)
        /\ held = <<1>>
        /\ products = 1
        /\ req = DefaultRequirement
        /\ pc = "idle"
        /\ predicates = <<>> /\ filtered = <<>>
        /\ result = None /\ error = NoError
        /\ audit = <<>>
        /\ metrics = None
        /\ ops = 0

SpecMetrics == InitMetrics /\ [][ComputeMetrics]_vars

-----------------------------------------------------------------------------
(* Properties                                                              *)

Input == heap[products]
Returned == pc = "idle" /\ result # None
Raised == pc = "idle" /\ error # NoError

\* lo <= v <= hi, an absent bound imposing nothing
Within(v, lo, hi) == (lo = None \/ Get(lo) <= v) /\ (hi = None \/ v <= Get(hi))

\* The record passes every active test of the requirement q
Satisfies(r, q) ==
    /\ Within(r.inventory, q.min_inventory, q.max_inventory)
    /\ Within(r.units_sold, q.min_units_sold, q.max_units_sold)
    /\ Within(r.revenue, q.min_revenue, q.max_revenue)
    /\ \/ q.product_contains = None
       \/ Get(q.product_contains) = <<>>
       \/ StrIn(StrStrip(StrLower(Get(q.product_contains))), StrLower(r.product))

Matching(l, q) == LET Sat(r) == Satisfies(r, q) IN SelectSeq(l, Sat)

\* C1: with sort_by and limit absent, apply_query returns exactly the
\* subsequence of the input (input order, duplicates kept) of the records
\* that satisfy all active tests, bounds inclusive; with no active test it
\* returns the whole input.
C1_FilterExact ==
    (Returned /\ req.sort_by = None /\ req.limit = None)
        => /\ Get(result) = Matching(Input, req)
           /\ (\A n \in BoundNames : req[n] = None) /\ ~TruthyStr(req.product_contains)
                  => Get(result) = Input

\* A record equal to a bound was kept, another was dropped, with a text filter active
C1_Witness ==
    /\ Returned /\ req.sort_by = None /\ req.limit = None
    /\ TruthyStr(req.product_contains)
    /\ req.min_inventory = Some(1)
    /\ Len(Get(result)) = 1 /\ Get(result)[1].inventory = 1
    /\ Len(Input) = 2

NegativeBounds(q) == {n \in BoundNames : q[n] # None /\ Get(q[n]) < 0}

Inverted(q, lo, hi) == q[lo] # None /\ q[hi] # None /\ Get(q[lo]) > Get(q[hi])

InvertedRanges(q) ==
    {pair \in {<<"min_inventory", "max_inventory">>, <<"min_units_sold", "max_units_sold">>,
               <<"min_revenue", "max_revenue">>} : Inverted(q, pair[1], pair[2])}

\* C2 as stated: validate fails iff a bound is negative, a range is inverted,
\* or sort_by is any value other than None outside the four keys.
C2_AsStated ==
    (pc # "validate")
        => ((error # NoError)
              <=> \/ NegativeBounds(req) # {}
                  \/ InvertedRanges(req) # {}
                  \/ (req.sort_by # None /\ Get(req.sort_by) \notin SortKeys))

\* C2: validate fails iff a bound is negative, a range is inverted, or sort_by
\* is a non-empty string outside the four keys (None and "" both pass).
C2_ValidateFailsIff ==
    (pc # "validate")
        => ((error # NoError)
              <=> \/ NegativeBounds(req) # {}
                  \/ InvertedRanges(req) # {}
                  \/ (req.sort_by # None /\ Get(req.sort_by) # ""
                        /\ Get(req.sort_by) \notin SortKeys))

\* validate ran on a requirement whose only content is the empty sort key, and passed
C2_Witness ==
    /\ pc = "audit_request" /\ error = NoError
    /\ req.sort_by = Some("")
    /\ \A n \in BoundNames : req[n] = None

BoundOrder == <<"min_inventory", "max_inventory", "min_units_sold", "max_units_sold",
                "min_revenue", "max_revenue">>
RangeOrder == <<"min_inventory", "min_units_sold", "min_revenue">>

\* The first name of `order` that is in S
FirstOf(order, S) ==
    order[CHOOSE i \in 1..Len(order) :
              order[i] \in S /\ \A j \in 1..(i - 1) : order[j] \notin S]

\* C9: validate reports exactly one error, the earliest violated rule in the
\* order non-negativity (six bounds in field order), ranges (inventory,
\* units_sold, revenue), sort key.
C9_FailFastOrder ==
    Raised =>
        IF NegativeBounds(req) # {}
        THEN error = [kind |-> "NegativeBound", field |-> FirstOf(BoundOrder, NegativeBounds(req))]
        ELSE IF InvertedRanges(req) # {}
        THEN error = [kind |-> "InvertedRange",
                      field |-> FirstOf(RangeOrder, {pair[1] : pair \in InvertedRanges(req)})]
        ELSE error = [kind |-> "UnsupportedSortKey", field |-> "sort_by"]

\* min_inventory = 5 with max_inventory = -1 was reported as a negative max_inventory
C9_Witness ==
    /\ Raised
    /\ req.min_inventory = Some(5) /\ req.max_inventory = Some(-1)
    /\ error = [kind |-> "NegativeBound", field |-> "max_inventory"]

Requested == AuditEvent("query_requested", req)

\* Where the call stands, and what has been emitted and produced by then
C3_Stage ==
    /\ pc \in {"validate", "audit_request"}
          => audit = <<>> /\ filtered = <<>> /\ result = None
    /\ pc \in {"filter", "sort", "limit", "audit_result"}
          => audit = <<Requested>> /\ result = None /\ error = NoError
    /\ Raised => audit = <<>> /\ filtered = <<>> /\ result = None
    /\ (pc = "idle" /\ error = NoError)
          => /\ result # None
             /\ audit = <<Requested, AuditEvent("query_result_count", Len(Get(result)))>>

\* The statements follow one another in the fixed order
C3_Step ==
    <<pc, pc'>> \in {<<"validate", "audit_request">>, <<"validate", "idle">>,
                     <<"audit_request", "filter">>, <<"filter", "sort">>,
                     <<"sort", "limit">>, <<"limit", "audit_result">>,
                     <<"audit_result", "idle">>}

\* C3: apply_query runs validate, query_requested, filter, sort, limit,
\* query_result_count in this order; a validation failure emits no event,
\* filters nothing and returns nothing; a success emits exactly one
\* query_requested before filtering and one query_result_count after the
\* limit, whose count is the length of the returned list.
C3_PipelineOrder == [](C3_Stage) /\ [][C3_Step]_vars

\* A call that passed validation returned two of three records and logged that count
C3_Witness ==
    /\ pc = "idle" /\ error = NoError /\ result # None
    /\ Len(audit) = 2 /\ audit[2].payload = 2 /\ Len(Input) = 3

Injections(n) == {f \in [1..n -> 1..n] : \A i, j \in 1..n : f[i] = f[j] => i = j}

\* out is src reordered by the key, in the given direction, equal keys in src order
StablyOrdered(out, src, sort_by, desc) ==
    /\ Len(out) = Len(src)
    /\ \E f \in Injections(Len(src)) :
         /\ \A i \in 1..Len(out) : out[i] = src[f[i]]
         /\ \A i, j \in 1..Len(out) :
              i < j =>
                LET ki == key_func(sort_by, out[i])
                    kj == key_func(sort_by, out[j])
                IN /\ IF desc THEN ~KeyLess(sort_by, ki, kj) ELSE ~KeyLess(sort_by, kj, ki)
                   /\ (ki = kj) => f[i] < f[j]

\* C4: with a supported sort_by the result before limiting is a permutation
\* of the filtered records ordered by the key (non-increasing when sort_desc,
\* else non-decreasing), records with equal keys keeping their input order;
\* for product the key is the lower-cased name.
C4_StableSort ==
    (pc = "limit" /\ req.sort_by # None /\ Get(req.sort_by) \in SortKeys)
        => StablyOrdered(filtered, Matching(Input, req), Get(req.sort_by), req.sort_desc)

\* A descending sort by product moved a record to the front and kept two
\* names that differ only in case in their input order
C4_Witness ==
    /\ pc = "limit" /\ req.sort_by = Some("product") /\ req.sort_desc
    /\ Input = <<ProductRecord(<<"A","b">>, 1, 0, 1), ProductRecord(<<"a","B">>, 0, 1, 1),
                 ProductRecord(<<"b">>, 1, 1, 0)>>
    /\ filtered = <<Input[3], Input[1], Input[2]>>

\* The filtered-and-sorted sequence the limit applies to
Ordered(l, q) ==
    IF TruthyKey(q.sort_by)
    THEN ListSort(Matching(l, q), Get(q.sort_by), q.sort_desc)
    ELSE Matching(l, q)

\* C5: with limit = N >= 0 apply_query returns the first min(N, n) elements
\* of the filtered-and-sorted sequence of length n (the limit after the
\* sort); N = 0 gives the empty list, N >= n the whole sequence, and no
\* error is raised.
C5_LimitPrefix ==
    (pc = "idle" /\ req.limit # None /\ Get(req.limit) >= 0)
        => LET all == Ordered(Input, req)
               N == Get(req.limit)
           IN /\ error = NoError /\ result # None
              /\ Get(result) = SubSeq(all, 1, Min(N, Len(all)))
              /\ N = 0 => Get(result) = <<>>
              /\ N >= Len(all) => Get(result) = all

\* A limit of 1 after a sort returned one record that was not first in the input
C5_Witness ==
    /\ Returned /\ req.limit = Some(1) /\ req.sort_by = Some("revenue")
    /\ Len(Ordered(Input, req)) = 3
    /\ Len(Get(result)) = 1 /\ Get(result)[1] # Input[1]

\* C10: a negative limit -k is not rejected; apply_query returns the
\* filtered-and-sorted sequence without its last k elements (its first
\* max(0, n - k) elements), non-empty whenever n > k.
C10_NegativeLimit ==
    (pc = "idle" /\ req.limit # None /\ Get(req.limit) < 0)
        => LET all == Ordered(Input, req)
               k == -Get(req.limit)
           IN /\ error = NoError /\ result # None
              /\ Get(result) = SubSeq(all, 1, Max(0, Len(all) - k))
              /\ Len(all) > k => Get(result) # <<>>

\* limit = -1 on three matching records returned the first two
C10_Witness ==
    /\ Returned /\ req.limit = Some(-1)
    /\ Len(Ordered(Input, req)) = 3 /\ Len(Get(result)) = 2

\* C8: no statement of apply_query changes the list passed as `products`
\* (its elements and their order) or any field of `req`, whether the call
\* returns or raises.
C8_ArgumentsUnchanged ==
    [][products' = products /\ heap'[products] = heap[products] /\ req' = req]_vars

\* A sort by product returned the input records in another order
C8_Witness ==
    /\ Returned /\ req.sort_by = Some("product")
    /\ Len(Get(result)) = 3 /\ Len(Input) = 3 /\ Get(result) # Input

\* The caller's lists are distinct objects, none of them PRODUCTS
C6_Distinct ==
    /\ heap[PRODUCTS] = Dataset
    /\ \A i \in 1..Len(held) :
         /\ held[i] # PRODUCTS
         /\ \A j \in 1..Len(held) : held[i] = held[j] => i = j

\* A list that get_products returns equals the dataset
C6_Fresh == (Len(held') > Len(held)) => heap'[held'[Len(held')]] = Dataset

\* C6: whatever the caller does to the lists it got from get_products
\* and however it queries them, PRODUCTS keeps the original records in
\* their order, every get_products returns a list equal to it, and no two
\* returned lists are the same object.
C6_DatasetIsolated == [](C6_Distinct) /\ [][C6_Fresh]_vars

\* get_products was just called again after the first returned list was
\* changed and queried
C6_Witness ==
    /\ Len(held) = 2
    /\ heap[held[1]] # Dataset /\ heap[held[2]] = Dataset
    /\ Len(audit) >= 3
    /\ audit[Len(audit)].event = "products_accessed"
    /\ audit[Len(audit) - 1].event = "query_result_count"

RECURSIVE SumUpTo(_, _, _)
SumUpTo(l, f, n) == IF n = 0 THEN 0 ELSE SumUpTo(l, f, n - 1) + l[n][f]

\* C7: compute_metrics returns the three sums and, as top product, the
\* first record of maximum revenue; for the empty list the sums are 0 and
\* the top product is None.
C7_Metrics ==
    metrics # None =>
        LET l == heap[held[1]]
            m == Get(metrics)
        IN /\ m.total_revenue_products = SumUpTo(l, "revenue", Len(l))
           /\ m.total_units_sold_products = SumUpTo(l, "units_sold", Len(l))
           /\ m.total_inventory_products = SumUpTo(l, "inventory", Len(l))
           /\ l = <<>> => /\ m.top_product_by_revenue = None
                          /\ m.total_revenue_products = 0
                          /\ m.total_units_sold_products = 0
                          /\ m.total_inventory_products = 0
           /\ l # <<>> =>
                \E i \in 1..Len(l) :
                    /\ m.top_product_by_revenue = Some(l[i])
                    /\ \A j \in 1..Len(l) : l[j].revenue <= l[i].revenue
                    /\ \A j \in 1..(i - 1) : l[j].revenue < l[i].revenue

\* Two different records share the maximum revenue and the earlier one is the top
C7_Witness ==
    /\ metrics # None
    /\ LET l == heap[held[1]] IN
         /\ Len(l) = 3
         /\ l[2].revenue = 1 /\ l[3].revenue = 1 /\ l[1].revenue = 0 /\ l[2] # l[3]
         /\ Get(metrics).top_product_by_revenue = Some(l[2])

====
